---- MODULE Spec2Model ----
(***************************************************************************)
(* Model of klippy/extras/ldc1612.py: the LDC1612 bulk-sample decoder      *)
(* (_extract_samples), the measurement session (_start_measurements,       *)
(* _finish_measurements, _process_batch), the drive current calibration    *)
(* (cmd_LDC_CALIBRATE) and the collaborators of bulk_sensor.py the session *)
(* drives (BulkDataQueue, ChipClockUpdater, ClockSyncRegression,           *)
(* BatchBulkHelper), which are modelled from their description in the      *)
(* specification.                                                          *)
(*                                                                         *)
(* Numbers.  Python integers are unbounded; every intermediate value of    *)
(* the model stays below 2^31.  Floating point values are modelled by      *)
(* exact rationals: a time is an integer number of ticks, TicksPerMicro    *)
(* ticks to the microsecond, and a frequency is a pair (hz, mhz) of whole  *)
(* hertz and thousandths.  round(x, n) is round-half-even on the exact     *)
(* value, as CPython computes it.                                          *)
(***************************************************************************)
EXTENDS Integers, Sequences, FiniteSets, TLC

VARIABLES
    is_started,        \* BatchBulkHelper: FALSE = Idle, TRUE = Streaming
    raw_samples,       \* bulk_queue: the buffered raw blocks, oldest first
    last_sequence,     \* clock_updater.last_sequence
    last_overflows,    \* clock_updater.last_overflows
    clock_sync,        \* clock_sync: time_base, chip_base, inv_freq, last_chip_clock
    last_error_count,  \* self.last_error_count
    regs,              \* the chip's register file
    rest_ticks,        \* the mcu's query_ldc1612 rest_ticks (0 = not streaming)
    mcu_sequence,      \* the mcu's 16-bit sequence number of its next block
    stopping,          \* _finish_measurements waits for the mcu's acknowledgment
    client_cbs,        \* BatchBulkHelper: the registered calibration observers
    calibrate,         \* cmd_LDC_CALIBRATE: the position and locals of the run
    ret,               \* the last handler that ran: its inputs and its outcome
    ghost              \* history: error-flagged samples decoded since the last
                       \* successful start and since the last publish

vars == <<is_started, raw_samples, last_sequence, last_overflows, clock_sync,
          last_error_count, regs, rest_ticks, mcu_sequence, stopping, client_cbs,
          calibrate, ret, ghost>>

---------------------------------------------------------------------------
(* Program constants *)

BYTES_PER_SAMPLE == 4
MAX_BULK_MSG_SIZE == 51

\* variant of SAMPLES_PER_BLOCK: the division rounds up
SamplesPerBlockCeil == (MAX_BULK_MSG_SIZE + BYTES_PER_SAMPLE - 1) \div BYTES_PER_SAMPLE

SAMPLES_PER_BLOCK == MAX_BULK_MSG_SIZE \div BYTES_PER_SAMPLE

LDC1612_FREQ == 12000000
DRIVECUR == 15
DEGLITCH == 5
LDC1612_MANUF_ID == 21577
LDC1612_DEV_ID == 12373
REG_RCOUNT0 == 8
REG_OFFSET0 == 12
REG_SETTLECOUNT0 == 16
REG_CLOCK_DIVIDERS0 == 20
REG_ERROR_CONFIG == 25
REG_CONFIG == 26
REG_MUX_CONFIG == 27
REG_DRIVE_CURRENT0 == 30
REG_MANUFACTURER_ID == 126
REG_DEVICE_ID == 127
data_rate == 250

(* Bounds of the model *)

MaxBlocks == 2          \* raw blocks in one batch
MaxQueue == 2           \* raw blocks buffered in the session model
MaxErrors == 3          \* cap of the error counter in the session model
MaxOverflows == 1       \* cap of the overflow counter in the session model
MaxSent == 3            \* raw blocks the mcu sends in one session
TicksPerMicro == 4      \* resolution of modelled times: ticks per microsecond
LongStretch == 65534    \* raw blocks of one long stretch of streaming
MaxRuns == 2            \* calibration runs in the calibration model

---------------------------------------------------------------------------
(* Integer helpers: Python's &, |, <<, >> and round() *)

Pow2(n) == 2 ^ n

Shl(x, n) == x * Pow2(n)

Shr(x, n) == x \div Pow2(n)

RECURSIVE BitAndNat(_, _)
BitAndNat(x, y) ==
    IF x = 0 \/ y = 0 THEN 0
    ELSE (x % 2) * (y % 2) + 2 * BitAndNat(x \div 2, y \div 2)

\* x & mask for a mask 0 <= mask < 2^16 and any integer x (two's complement)
BitAnd(x, mask) == BitAndNat(x % 65536, mask)

RECURSIVE BitOr(_, _)
BitOr(x, y) ==
    IF x = 0 THEN y
    ELSE IF y = 0 THEN x
    ELSE (IF x % 2 = 1 \/ y % 2 = 1 THEN 1 ELSE 0) + 2 * BitOr(x \div 2, y \div 2)

\* n / d rounded to the nearest integer, ties to even (d > 0)
RoundHalfEven(n, d) ==
    LET q == n \div d
        r == n % d
    IN  IF 2 * r > d THEN q + 1
        ELSE IF 2 * r < d THEN q
        ELSE IF q % 2 = 0 THEN q ELSE q + 1

Abs(x) == IF x < 0 THEN -x ELSE x

---------------------------------------------------------------------------
(* Measurement decoding: _extract_samples *)

\* lines 136-138: the block's 16-bit sequence number against last_sequence
SeqDiff(sequence, last) ==
    LET seq_diff == BitAnd(sequence - last, 65535)
    IN  seq_diff - Shl(BitAnd(seq_diff, 32768), 1)

\* variants of Reconcile: the 16-bit difference taken as unsigned, and the
\* difference taken without reduction modulo 2^16
ReconcileUnsigned(sequence, last) == last + BitAnd(sequence - last, 65535)

ReconcileNoWrap(sequence, last) == last + (sequence - (last % 65536))

Reconcile(sequence, last) == last + SeqDiff(sequence, last)

\* line 142: v = d[i*BYTES_PER_SAMPLE:(i+1)*BYTES_PER_SAMPLE]
SampleBytes(d, i) == SubSeq(d, i * BYTES_PER_SAMPLE + 1, (i + 1) * BYTES_PER_SAMPLE)

\* variant of ErrorFlag: only the top bit of byte 0 is tested
ErrorFlagTopBit(v) == BitAnd(v[1], 128) # 0

\* line 143: v[0] & 0xf0
ErrorFlag(v) == BitAnd(v[1], 240) # 0

\* variant of CountError: the counter is set, not advanced
CountErrorOnce(count) == 1

\* line 144: self.last_error_count += 1
CountError(count) == count + 1

\* line 145
SampleVal(v) ==
    BitOr(BitOr(BitOr(Shl(BitAnd(v[1], 15), 24), Shl(v[2], 16)), Shl(v[3], 8)), v[4])

\* line 147: round(freq_conv * val, 3) with freq_conv = LDC1612_FREQ / 2^28,
\* as whole hertz and thousandths.  LDC1612_FREQ / 2^28 = 46875 / 2^20; the
\* product is taken in two 14-bit halves of val.
FreqOf(val) ==
    LET k    == LDC1612_FREQ \div Pow2(8)
        h    == val \div Pow2(14)
        l    == val % Pow2(14)
        P    == h * k
        R    == (P % 64) * Pow2(14) + l * k
        hz   == P \div 64 + R \div Pow2(20)
        f    == R % Pow2(20)
        m    == RoundHalfEven(f * 125, Pow2(17))
    IN  IF m = 1000 THEN [hz |-> hz + 1, mhz |-> 0] ELSE [hz |-> hz, mhz |-> m]

\* line 146: round(time_base + (msg_cdiff + i) * inv_freq, 6), in microseconds
PTime(tr, msg_cdiff, i) ==
    RoundHalfEven(tr.time_base + (msg_cdiff + i) * tr.inv_freq, TicksPerMicro)

\* variant of MsgCdiff: the block sequence is not scaled to samples
MsgCdiffUnscaled(seq, chip_base) == seq - chip_base

\* line 140: msg_cdiff = seq * SAMPLES_PER_BLOCK - chip_base
MsgCdiff(seq, chip_base) == seq * SAMPLES_PER_BLOCK - chip_base

\* line 141: range(len(d) // BYTES_PER_SAMPLE)
NumSamples(d) == Len(d) \div BYTES_PER_SAMPLE

\* lines 141-148: the inner loop over the samples of one block.  acc carries
\* the locals (samples, i) and self.last_error_count; cidx lists, for each
\* emitted sample, seq * SAMPLES_PER_BLOCK + i.
RECURSIVE SampleLoop(_, _, _, _, _, _)
SampleLoop(d, seq, tr, i, cap, acc) ==
    IF i >= NumSamples(d) \/ acc.raised # "" THEN acc
    ELSE
        LET v         == SampleBytes(d, i)
            err       == IF ErrorFlag(v) THEN CountError(acc.err) ELSE acc.err
            val       == SampleVal(v)
            msg_cdiff == MsgCdiff(seq, tr.chip_base)
            ptime     == PTime(tr, msg_cdiff, i)
            smp       == [time |-> ptime, freq |-> FreqOf(val)]
        IN  IF Len(acc.samples) >= cap
            THEN [acc EXCEPT !.err = err, !.i = i, !.i_bound = TRUE,
                             !.raised = "IndexError"]
            ELSE SampleLoop(d, seq, tr, i + 1, cap,
                     [acc EXCEPT !.err = err, !.i = i, !.i_bound = TRUE,
                                 !.samples = Append(@, smp),
                                 !.cidx = Append(@, seq * SAMPLES_PER_BLOCK + i)])

\* lines 135-148: the loop over the messages of raw
RECURSIVE BlockLoop(_, _, _, _, _)
BlockLoop(raw, last, tr, b, acc) ==
    IF b > Len(raw) \/ acc.raised # "" THEN acc
    ELSE
        LET seq == Reconcile(raw[b].sequence, last)
        IN  BlockLoop(raw, last, tr, b + 1,
                SampleLoop(raw[b].data, seq, tr, 0, Len(raw) * SAMPLES_PER_BLOCK,
                    [acc EXCEPT !.seq = seq, !.seqs = Append(@, seq)]))

\* lines 127-151.  The result: the locals at the end of the loops, the value
\* handed to set_last_chip_clock, and the exception raised, if any: line 149
\* reads the loop variable i, which is unbound when no block held a sample.
ExtractSamples(raw, last, tr, err0) ==
    LET acc0 == [samples |-> <<>>, cidx |-> <<>>, seqs |-> <<>>, err |-> err0,
                 seq |-> 0, i |-> 0, i_bound |-> FALSE, raised |-> ""]
        acc  == BlockLoop(raw, last, tr, 1, acc0)
    IN  IF acc.raised # "" THEN acc
        ELSE IF ~acc.i_bound THEN [acc EXCEPT !.raised = "UnboundLocalError"]
        ELSE acc

\* variant of LastChipClockArg: the block sequence is left out
LastChipClockArgIndexOnly(acc) == acc.i

\* line 149: the argument of set_last_chip_clock
LastChipClockArg(acc) == acc.seq * SAMPLES_PER_BLOCK + acc.i

---------------------------------------------------------------------------
(* Register access: read_reg, set_reg *)

\* lines 117-120: the two response bytes of i2c_read, big endian
read_reg(response) == BitOr(Shl(response[1], 8), response[2])

\* lines 121-123: the two bytes i2c_write sends, as the chip stores them
set_reg(val) == BitOr(Shl(BitAnd(Shr(val, 8), 255), 8), BitAnd(val, 255))

\* int(x + 0.5) for x = num / den >= 0
IntRound(num, den) == (2 * num + den) \div (2 * den)

\* line 42: config.getint("reg_drive_current", DRIVECUR)
drive_cur == DRIVECUR

\* mcu.seconds_to_clock(num / den): int(seconds * mcu_freq)
mcu_freq == 16000000

seconds_to_clock(num, den) == (num * mcu_freq) \div den

\* variant of StartRegWrites: the registers are programmed in address order,
\* the config register before the mux config register
StartRegWritesByAddress ==
    << [reg |-> REG_RCOUNT0,
        val |-> set_reg(IntRound(LDC1612_FREQ, 16 * (data_rate - 4)))],
       [reg |-> REG_OFFSET0, val |-> set_reg(0)],
       [reg |-> REG_SETTLECOUNT0, val |-> set_reg(IntRound(5 * LDC1612_FREQ, 1000 * 16))],
       [reg |-> REG_CLOCK_DIVIDERS0, val |-> set_reg(BitOr(Shl(1, 12), 1))],
       [reg |-> REG_ERROR_CONFIG, val |-> set_reg(BitOr(Shl(31, 11), 1))],
       [reg |-> REG_CONFIG,
        val |-> set_reg(BitOr(BitOr(BitOr(1, Shl(1, 12)), Shl(1, 10)), Shl(1, 9)))],
       [reg |-> REG_MUX_CONFIG, val |-> set_reg(BitOr(520, DEGLITCH))],
       [reg |-> REG_DRIVE_CURRENT0, val |-> set_reg(Shl(drive_cur, 11))] >>

\* lines 165-173: the registers _start_measurements programs, in order
StartRegWrites ==
    << [reg |-> REG_RCOUNT0,
        val |-> set_reg(IntRound(LDC1612_FREQ, 16 * (data_rate - 4)))],
       [reg |-> REG_OFFSET0, val |-> set_reg(0)],
       [reg |-> REG_SETTLECOUNT0, val |-> set_reg(IntRound(5 * LDC1612_FREQ, 1000 * 16))],
       [reg |-> REG_CLOCK_DIVIDERS0, val |-> set_reg(BitOr(Shl(1, 12), 1))],
       [reg |-> REG_ERROR_CONFIG, val |-> set_reg(BitOr(Shl(31, 11), 1))],
       [reg |-> REG_MUX_CONFIG, val |-> set_reg(BitOr(520, DEGLITCH))],
       [reg |-> REG_CONFIG,
        val |-> set_reg(BitOr(BitOr(BitOr(1, Shl(1, 12)), Shl(1, 10)), Shl(1, 9)))],
       [reg |-> REG_DRIVE_CURRENT0, val |-> set_reg(Shl(drive_cur, 11))] >>

RECURSIVE ApplyWrites(_, _, _)
ApplyWrites(r, writes, k) ==
    IF k > Len(writes) THEN r
    ELSE ApplyWrites([r EXCEPT ![writes[k].reg] = writes[k].val], writes, k + 1)

\* line 176
StartRestTicks == seconds_to_clock(1, 2 * data_rate)

\* variant of IdMismatch: both ids must be wrong
IdMismatchBoth(manuf_id, dev_id) ==
    manuf_id # LDC1612_MANUF_ID /\ dev_id # LDC1612_DEV_ID

\* line 158
IdMismatch(manuf_id, dev_id) ==
    manuf_id # LDC1612_MANUF_ID \/ dev_id # LDC1612_DEV_ID

---------------------------------------------------------------------------
(* Inputs of the model *)

B(b0, b1, b2, b3) == <<b0, b1, b2, b3>>

\* 4-byte samples: clean and error-flagged, magnitudes at the ends of the
\* 28-bit range and at rounding ties of the frequency conversion
CleanSample   == B(3, 18, 52, 86)
FlaggedSample == B(243, 18, 52, 86)
MaxSample     == B(15, 255, 255, 255)
FlaggedZero   == B(16, 0, 0, 0)
TieUpSample   == B(0, 1, 0, 0)
TieDownSample == B(128, 3, 0, 0)

SampleChoices ==
    {CleanSample, FlaggedSample, MaxSample, FlaggedZero, TieUpSample, TieDownSample}

RECURSIVE Repeat(_, _)
Repeat(v, n) == IF n = 0 THEN <<>> ELSE v \o Repeat(v, n - 1)

\* a payload of n clean samples followed by `extra` stray bytes
Payload(n, extra) == Repeat(CleanSample, n) \o SubSeq(<<16, 0, 0>>, 1, extra)

Block(sequence, data) == [sequence |-> sequence, data |-> data]

RECURSIVE SeqsOver(_, _)
\* the sequences of 1..n elements of S
SeqsOver(S, n) ==
    IF n = 0 THEN {}
    ELSE LET shorter == SeqsOver(S, n - 1)
         IN  {<<x>> : x \in S} \cup shorter
               \cup {Append(q, x) : q \in shorter, x \in S}

\* clock translations (time_base and inv_freq in ticks, inv_freq > 0)
Translation(time_base, chip_base, inv_freq) ==
    [time_base |-> time_base, chip_base |-> chip_base, inv_freq |-> inv_freq,
     last_chip_clock |-> 0]

InitialClockSync == Translation(0, 0, 1)

---------------------------------------------------------------------------
(* The handlers' record of what they did *)

Event(e, a, v) == [e |-> e, a |-> a, v |-> v]

NoAcc == [samples |-> <<>>, cidx |-> <<>>, seqs |-> <<>>, err |-> 0,
          seq |-> 0, i |-> 0, i_bound |-> FALSE, raised |-> ""]

NoMsg == [published |-> FALSE, data |-> <<>>, errors |-> 0, overflows |-> 0]

Ret(op) ==
    [op |-> op, raised |-> "", info |-> <<>>, events |-> <<>>, raw |-> <<>>,
     pre_err |-> last_error_count, pre_seq |-> last_sequence,
     pre_lcc |-> clock_sync.last_chip_clock,
     base |-> 0, tr |-> InitialClockSync, acc |-> NoAcc, msg |-> NoMsg,
     first |-> FALSE, answers |-> {}]

---------------------------------------------------------------------------
(* bulk_sensor collaborators *)

\* BulkDataQueue._handle_data: the transport appends one raw block
handle_data(queue, params) == Append(queue, params)

\* BulkDataQueue.clear_samples
clear_samples(queue) == <<>>

\* ChipClockUpdater.update_clock: one status query.  The response carries the
\* device's 16-bit next_sequence and limit_count; the regression is refit
\* from the new observation, giving the translation tr.
update_clock(next_sequence, limit_count, tr) ==
    [last_sequence  |-> last_sequence + BitAnd(next_sequence - last_sequence, 65535),
     last_overflows |-> last_overflows + BitAnd(limit_count - last_overflows, 65535),
     clock_sync     |-> [tr EXCEPT !.last_chip_clock = clock_sync.last_chip_clock]]

\* ChipClockUpdater.note_start: the counters and the regression start afresh
note_start ==
    [last_sequence |-> 0, last_overflows |-> 0, clock_sync |-> InitialClockSync]

\* ClockSyncRegression.set_last_chip_clock
set_last_chip_clock(cs, chip_clock) == [cs EXCEPT !.last_chip_clock = chip_clock]

---------------------------------------------------------------------------
(* Inputs of the session model *)

\* the mcu's sequence number when streaming starts
StartSequences == {0}

SessPayloads == {Payload(0, 3), CleanSample, FlaggedSample, FlaggedSample \o CleanSample}

SessTranslations == {Translation(0, 0, 1), Translation(1000, 12, 2000)}

\* i2c responses to the reads of the two id registers
ManufResponses == {<<84, 73>>, <<255, 255>>}
DevResponses == {<<48, 85>>, <<48, 84>>}

ChipResetRegs ==
    [r \in {REG_RCOUNT0, REG_OFFSET0, REG_SETTLECOUNT0, REG_CLOCK_DIVIDERS0,
            REG_ERROR_CONFIG, REG_CONFIG, REG_MUX_CONFIG, REG_DRIVE_CURRENT0} |-> 0]

\* since_publish counts from the decode after the previous publish up to the
\* latest decode; published says that the latest decode published; ticked
\* says that a batch tick has run since the start; sent counts the blocks
\* the mcu has sent since the start, and late those it sent while a stop
\* command was waiting for its acknowledgment
NoGhost == [since_start |-> 0, since_publish |-> 0, published |-> FALSE,
            ticked |-> FALSE, sent |-> 0, late |-> 0]

\* line 62: the config value that enables the auto-calibration
AutoCalConfig == BitOr(1, Shl(1, 9))

\* cmd_LDC_CALIBRATE at rest: pc is the position of the run ("idle": no run),
\* old_config the run's local, drive_cur the value it reported (-1: none)
\* and saved the decimal digits it handed to configfile.set;
\* window holds between the auto-calibration write and the config restore,
\* pre_config is the config register as it was before that write, and runs
\* counts the runs begun
NoCalibrate == [pc |-> "idle", old_config |-> 0, events |-> <<>>, raised |-> "",
                drive_cur |-> -1, saved |-> <<>>, runs |-> 0, window |-> FALSE,
                pre_config |-> 0]

\* i2c responses to the read of the drive current register after the
\* auto-calibration: the chip's suggestion is in bits 10..6
DriveResponses == {<<120, 0>>, <<124, 64>>, <<255, 255>>}

\* the two bytes the chip answers to the read of a register holding val
RegBytes(val) == <<val \div 256, val % 256>>

NoteDecode(g, flagged, published) ==
    [since_start   |-> g.since_start + flagged,
     since_publish |-> (IF g.published THEN 0 ELSE g.since_publish) + flagged,
     published     |-> published,
     ticked        |-> TRUE,
     sent          |-> g.sent,
     late          |-> g.late]

---------------------------------------------------------------------------
(* The session: start, stop and batch processing *)

Init ==
    /\ is_started = FALSE
    /\ raw_samples = <<>>
    /\ last_sequence = 0
    /\ last_overflows = 0
    /\ clock_sync = InitialClockSync
    /\ last_error_count = 0
    /\ regs = ChipResetRegs
    /\ rest_ticks = 0
    /\ mcu_sequence = 0
    /\ stopping = FALSE
    /\ client_cbs = {}
    /\ calibrate = NoCalibrate
    /\ ret = [op |-> "init", raised |-> "", info |-> <<>>, events |-> <<>>,
              raw |-> <<>>, pre_err |-> 0, pre_seq |-> 0, pre_lcc |-> 0,
              base |-> 0, tr |-> InitialClockSync, acc |-> NoAcc, msg |-> NoMsg,
              first |-> FALSE, answers |-> {}]
    /\ ghost = NoGhost

\* while it streams, the mcu sends its next raw block, with a payload of
\* payloads, and the transport delivers it
HandleDataOf(payloads) ==
    /\ rest_ticks # 0
    /\ Len(raw_samples) < MaxQueue
    /\ ghost.sent < MaxSent
    /\ \E d \in payloads :
         raw_samples' = handle_data(raw_samples, Block(mcu_sequence, d))
    /\ mcu_sequence' = (mcu_sequence + 1) % 65536
    /\ ret' = Ret("handle_data")
    /\ ghost' = [ghost EXCEPT !.sent = @ + 1,
                               !.late = IF stopping THEN @ + 1 ELSE @]
    /\ UNCHANGED <<is_started, last_sequence, last_overflows, clock_sync,
                   last_error_count, regs, rest_ticks, stopping, client_cbs,
                   calibrate>>

HandleData == HandleDataOf(SessPayloads)

\* variant of StartErrorCount: the counter is not reset
StartErrorCountKept == last_error_count

\* line 181
StartErrorCount == 0

\* lines 153-163: the id check fails and command_error is raised
StartFails(manuf_id, dev_id) ==
    /\ IdMismatch(manuf_id, dev_id)
    /\ ret' = [Ret("start") EXCEPT
                 !.raised = "command_error",
                 !.info = <<manuf_id, dev_id, LDC1612_MANUF_ID, LDC1612_DEV_ID>>,
                 !.events = <<Event("read_reg", REG_MANUFACTURER_ID, manuf_id),
                              Event("read_reg", REG_DEVICE_ID, dev_id)>>]
    /\ UNCHANGED <<is_started, raw_samples, last_sequence, last_overflows,
                   clock_sync, last_error_count, regs, rest_ticks, mcu_sequence,
                   ghost>>

\* lines 153-181 past the id check
StartSucceeds(manuf_id, dev_id) ==
    /\ ~IdMismatch(manuf_id, dev_id)
    /\ regs' = ApplyWrites(regs, StartRegWrites, 1)
    /\ raw_samples' = clear_samples(raw_samples)
    /\ rest_ticks' = StartRestTicks
    /\ mcu_sequence' \in StartSequences
    /\ last_sequence' = note_start.last_sequence
    /\ last_overflows' = note_start.last_overflows
    /\ clock_sync' = note_start.clock_sync
    /\ last_error_count' = StartErrorCount
    /\ is_started' = TRUE
    /\ ghost' = NoGhost
    /\ ret' = [Ret("start") EXCEPT
                 !.events =
                    <<Event("read_reg", REG_MANUFACTURER_ID, manuf_id),
                      Event("read_reg", REG_DEVICE_ID, dev_id)>>
                    \o [k \in 1..Len(StartRegWrites) |->
                          Event("set_reg", StartRegWrites[k].reg, StartRegWrites[k].val)]
                    \o <<Event("clear_samples", 0, 0),
                         Event("query", 0, StartRestTicks),
                         Event("note_start", 0, 0),
                         Event("last_error_count", 0, StartErrorCount)>>]

\* BatchBulkHelper._start -> _start_measurements, for a client of the
\* dump endpoint
StartMeasurements ==
    /\ ~is_started
    /\ \E mr \in ManufResponses, dr \in DevResponses :
         \/ StartFails(read_reg(mr), read_reg(dr))
         \/ StartSucceeds(read_reg(mr), read_reg(dr))
    /\ UNCHANGED <<stopping, client_cbs, calibrate>>

\* line 184: the rest_ticks argument of the stop command
FinishRestTicks == 0

\* variant of QueueAtAck: the buffer is not cleared after the acknowledgment
QueueAtAckKept(queue) == queue

\* line 185: after send_wait_ack has returned
QueueAtAck(queue) == clear_samples(queue)

\* line 184: the stop command is sent and send_wait_ack blocks.  The mcu
\* streams until the command reaches it.  BatchBulkHelper stops the session
\* when no registered client wants more batches.
FinishSend ==
    /\ is_started
    /\ ~stopping
    /\ client_cbs = {}
    /\ stopping' = TRUE
    /\ ret' = [Ret("finish") EXCEPT
                 !.events = <<Event("query_wait_ack", 0, FinishRestTicks)>>]
    /\ UNCHANGED <<is_started, raw_samples, last_sequence, last_overflows,
                   clock_sync, last_error_count, regs, rest_ticks, mcu_sequence,
                   client_cbs, calibrate, ghost>>

\* lines 184-186: the mcu has taken the command and its acknowledgment
\* arrives, behind every raw block the mcu sent before it
FinishAck ==
    /\ stopping
    /\ rest_ticks' = FinishRestTicks
    /\ raw_samples' = QueueAtAck(raw_samples)
    /\ stopping' = FALSE
    /\ is_started' = FALSE
    /\ ret' = [Ret("finish") EXCEPT
                 !.raw = raw_samples,
                 !.events = <<Event("query_wait_ack", 0, FinishRestTicks),
                              Event("ack", 0, 0),
                              Event("clear_samples", 0, Len(raw_samples))>>]
    /\ UNCHANGED <<last_sequence, last_overflows, clock_sync, last_error_count,
                   regs, mcu_sequence, client_cbs, calibrate, ghost>>

\* BatchBulkHelper._stop -> _finish_measurements, lines 182-186
FinishMeasurements == FinishSend \/ FinishAck

\* variant of get_time_translation: the translation of before the tick's
\* clock update
get_time_translation_stale(upd) == clock_sync

\* line 129, read after update_clock has run
get_last_sequence(upd) == upd.last_sequence

\* line 130, read after update_clock has run
get_time_translation(upd) == upd.clock_sync

\* lines 55-56: the observer's answer is the run's is_in_progress
handle_batch(client) == client.is_in_progress

\* variant of NothingPulled: the empty pull is not short-cut
NothingPulledIgnored(raw) == FALSE

\* line 190: if not raw_samples
NothingPulled(raw) == raw = <<>>

\* line 193: if not samples
NoSamples(samples) == samples = <<>>

\* variant of MsgErrors: only the errors of the batch being published
MsgErrorsOfBatch(error_count) == error_count - last_error_count

\* line 195: the error count of the published message
MsgErrors(error_count) == error_count

RECURSIVE CountFlagged(_, _)
\* the samples of d, from position i on, whose byte 0 has a non-zero top nibble
CountFlagged(d, i) ==
    IF (i + 1) * 4 > Len(d) THEN 0
    ELSE (IF d[4 * i + 1] >= 16 THEN 1 ELSE 0) + CountFlagged(d, i + 1)

RECURSIVE FlaggedIn(_, _)
FlaggedIn(raw, b) ==
    IF b > Len(raw) THEN 0 ELSE CountFlagged(raw[b].data, 0) + FlaggedIn(raw, b + 1)

\* lines 192-196: the pulled blocks are decoded and the result is published
DecodeAndPublish(upd, r0) ==
    \E acc \in {ExtractSamples(r0.raw, get_last_sequence(upd),
                               get_time_translation(upd), last_error_count)},
       flagged \in {FlaggedIn(r0.raw, 1)} :
      \E r1 \in {[r0 EXCEPT !.acc = acc,
                             !.events = @ \o <<Event("get_last_sequence", 0, 0),
                                               Event("get_time_translation", 0, 0)>>]} :
        /\ acc.err <= MaxErrors
        /\ last_error_count' = acc.err
        /\ IF acc.raised # ""
           THEN /\ clock_sync' = upd.clock_sync
                /\ ret' = [r1 EXCEPT !.raised = acc.raised]
                /\ ghost' = NoteDecode(ghost, flagged, FALSE)
                /\ UNCHANGED client_cbs
           ELSE /\ clock_sync' = set_last_chip_clock(upd.clock_sync,
                                                     LastChipClockArg(acc))
                /\ IF NoSamples(acc.samples)
                   THEN /\ ret' = r1
                        /\ ghost' = NoteDecode(ghost, flagged, FALSE)
                        /\ UNCHANGED client_cbs
                   ELSE /\ ret' = [r1 EXCEPT
                                     !.msg = [published |-> TRUE,
                                              data      |-> acc.samples,
                                              errors    |-> MsgErrors(acc.err),
                                              overflows |-> upd.last_overflows],
                                     !.answers =
                                        {[client |-> c, res |-> handle_batch(c)] :
                                            c \in client_cbs}]
                        /\ ghost' = NoteDecode(ghost, flagged, TRUE)
                        /\ client_cbs' = {c \in client_cbs : handle_batch(c)}

\* lines 187-196, one batch tick.  The status response of the tick's clock
\* update reports the mcu's sequence number and its overflow count, which
\* has grown by one of overflows; the regression is refit to one of
\* translations.
ProcessBatchOf(translations, overflows) ==
    /\ is_started
    /\ ~stopping
    /\ \E lim \in {(last_overflows + k) % 65536 : k \in overflows},
          tr \in translations :
         \E upd \in {update_clock(mcu_sequence, lim, tr)} :
           \E r0 \in {[Ret("batch") EXCEPT !.raw = raw_samples,
                                          !.info = <<mcu_sequence, lim>>,
                                          !.events =
                                             <<Event("update_clock", mcu_sequence, lim),
                                               Event("pull_samples", 0,
                                                     Len(raw_samples))>>,
                                          !.base = upd.last_sequence,
                                          !.tr = upd.clock_sync,
                                          !.first = ~ghost.ticked]} :
             /\ upd.last_overflows <= MaxOverflows
             /\ last_sequence' = upd.last_sequence
             /\ last_overflows' = upd.last_overflows
             /\ raw_samples' = <<>>
             /\ UNCHANGED <<is_started, regs, rest_ticks, mcu_sequence, stopping,
                            calibrate>>
             /\ IF NothingPulled(r0.raw)
                THEN /\ clock_sync' = upd.clock_sync
                     /\ ret' = r0
                     /\ ghost' = [ghost EXCEPT !.ticked = TRUE]
                     /\ UNCHANGED <<last_error_count, client_cbs>>
                ELSE DecodeAndPublish(upd, r0)

ProcessBatch == ProcessBatchOf(SessTranslations, {0, 1})

\* A long stretch of streaming taken as one step: the mcu sends LongStretch
\* full blocks of clean samples, and batch ticks pull and decode them all, the
\* last tick leaving the host level with the mcu.  It stands for LongStretch
\* steps of HandleData with the ProcessBatch steps that consume them.
StreamOn ==
    /\ is_started
    /\ ~stopping
    /\ raw_samples = <<>>
    /\ mcu_sequence = last_sequence
    /\ last_sequence < LongStretch
    /\ mcu_sequence' = (mcu_sequence + LongStretch) % 65536
    /\ last_sequence' = last_sequence + LongStretch
    /\ clock_sync' = set_last_chip_clock(clock_sync,
                          (last_sequence + LongStretch - 1) * SAMPLES_PER_BLOCK
                              + (SAMPLES_PER_BLOCK - 1))
    /\ client_cbs' = {c \in client_cbs : handle_batch(c)}
    /\ ghost' = [ghost EXCEPT !.since_publish = 0, !.published = TRUE,
                               !.ticked = TRUE]
    /\ ret' = [Ret("stream") EXCEPT !.info = <<LongStretch>>]
    /\ UNCHANGED <<is_started, raw_samples, last_overflows, last_error_count,
                   regs, rest_ticks, stopping, calibrate>>

\* the observer of a run: handle_batch with the run's is_in_progress;
\* ended says whether the run is over
Observer(is_in_progress, ended) == [is_in_progress |-> is_in_progress, ended |-> ended]

\* variant of DriveCurOf: the field of bits 15..11 is taken
DriveCurOfTopBits(reg_drive_current0) == BitAnd(Shr(reg_drive_current0, 11), 31)

\* line 70
DriveCurOf(reg_drive_current0) == BitAnd(Shr(reg_drive_current0, 6), 31)

RECURSIVE Decimal(_)
\* line 76: "%d" % (drive_cur,), the decimal digits of n >= 0
Decimal(n) == IF n < 10 THEN <<n>> ELSE Append(Decimal(n \div 10), n % 10)

\* a register read of the run fails: command_error leaves cmd_LDC_CALIBRATE
\* at once, with is_in_progress still true
CalReadFails(reg) ==
    /\ calibrate' = [calibrate EXCEPT
                        !.pc = "idle", !.raised = "command_error", !.window = FALSE,
                        !.events = Append(@, Event("read_reg_error", reg, 0))]
    /\ client_cbs' = (client_cbs \ {Observer(TRUE, FALSE)}) \cup {Observer(TRUE, TRUE)}
    /\ UNCHANGED regs

\* lines 54-60: the run registers its observer; add_client starts the
\* session when it is Idle, and a failed start ends the run.  The command
\* dispatcher runs one command at a time.
CalSubscribe ==
    /\ calibrate.pc = "idle"
    /\ calibrate.runs < MaxRuns
    /\ ~stopping
    /\ UNCHANGED stopping
    /\ IF is_started
       THEN /\ client_cbs' = client_cbs \cup {Observer(TRUE, FALSE)}
            /\ calibrate' = [NoCalibrate EXCEPT
                                !.pc = "dwell", !.runs = calibrate.runs + 1,
                                !.events = <<Event("add_client", 0, 0)>>]
            /\ ret' = Ret("cal_subscribe")
            /\ UNCHANGED <<is_started, raw_samples, last_sequence, last_overflows,
                           clock_sync, last_error_count, regs, rest_ticks,
                           mcu_sequence, ghost>>
       ELSE \E mr \in ManufResponses, dr \in DevResponses :
              \/ /\ StartFails(read_reg(mr), read_reg(dr))
                 /\ client_cbs' = {}
                 /\ calibrate' = [NoCalibrate EXCEPT
                                     !.runs = calibrate.runs + 1,
                                     !.raised = "command_error",
                                     !.events = <<Event("add_client", 0, 0)>>]
              \/ /\ StartSucceeds(read_reg(mr), read_reg(dr))
                 /\ client_cbs' = {Observer(TRUE, FALSE)}
                 /\ calibrate' = [NoCalibrate EXCEPT
                                     !.pc = "dwell", !.runs = calibrate.runs + 1,
                                     !.events = <<Event("add_client", 0, 0)>>]

\* lines 61-62: the config register is read and the auto-calibration is
\* switched on
CalAutoCal ==
    /\ calibrate.pc = "dwell"
    /\ ret' = Ret("cal_autocal")
    /\ UNCHANGED <<is_started, raw_samples, last_sequence, last_overflows,
                   clock_sync, last_error_count, rest_ticks, mcu_sequence,
                   stopping, ghost>>
    /\ \/ CalReadFails(REG_CONFIG)
       \/ \E old_config \in {read_reg(RegBytes(regs[REG_CONFIG]))} :
            /\ regs' = [regs EXCEPT ![REG_CONFIG] = set_reg(AutoCalConfig)]
            /\ calibrate' = [calibrate EXCEPT
                                !.pc = "settle", !.old_config = old_config,
                                !.window = TRUE, !.pre_config = regs[REG_CONFIG],
                                !.events = @ \o
                                   <<Event("read_reg", REG_CONFIG, old_config),
                                     Event("set_reg", REG_CONFIG, set_reg(AutoCalConfig))>>]
            /\ UNCHANGED client_cbs

\* lines 63-76: the drive current register is read, the config register is
\* restored, is_in_progress is cleared and the drive current is reported
CalRestore ==
    /\ calibrate.pc = "settle"
    /\ ret' = Ret("cal_restore")
    /\ UNCHANGED <<is_started, raw_samples, last_sequence, last_overflows,
                   clock_sync, last_error_count, rest_ticks, mcu_sequence,
                   stopping, ghost>>
    /\ \/ CalReadFails(REG_DRIVE_CURRENT0)
       \/ \E resp \in DriveResponses :
            \E reg_drive_current0 \in {read_reg(resp)} :
              /\ regs' = [regs EXCEPT ![REG_CONFIG] = set_reg(calibrate.old_config)]
              /\ client_cbs' = (client_cbs \ {Observer(TRUE, FALSE)})
                                   \cup {Observer(FALSE, TRUE)}
              /\ calibrate' = [calibrate EXCEPT
                                  !.pc = "idle", !.window = FALSE,
                                  !.drive_cur = DriveCurOf(reg_drive_current0),
                                  !.saved = Decimal(DriveCurOf(reg_drive_current0)),
                                  !.events = @ \o
                                     <<Event("read_reg", REG_DRIVE_CURRENT0,
                                             reg_drive_current0),
                                       Event("set_reg", REG_CONFIG,
                                             set_reg(calibrate.old_config)),
                                       Event("respond_info", 0,
                                             DriveCurOf(reg_drive_current0))>>]

\* DriveCurrentCalibrate.cmd_LDC_CALIBRATE, lines 53-76
Calibrate == CalSubscribe \/ CalAutoCal \/ CalRestore

Next ==
    \/ HandleData
    \/ StreamOn
    \/ StartMeasurements
    \/ FinishMeasurements
    \/ ProcessBatch

Spec == Init /\ [][Next]_vars

---------------------------------------------------------------------------
(* The session with calibration runs: the drive current calibration command
   beside a session that streams clean samples under one translation *)

CalPayloads == {CleanSample}

CalTranslations == {Translation(0, 0, 1)}

NextCalibrate ==
    \/ HandleDataOf(CalPayloads)
    \/ StartMeasurements
    \/ FinishMeasurements
    \/ ProcessBatchOf(CalTranslations, {0})
    \/ Calibrate

SpecCalibrate == Init /\ [][NextCalibrate]_vars

---------------------------------------------------------------------------
(* The decoder alone: _extract_samples applied to drawn inputs *)

\* sequence reconciliation: last_sequence and 16-bit sequence numbers at the
\* ends of the window and on both sides of a wrap
WrapLasts == {0, 1, 32767, 32768, 65530, 65535, 65536, 98304, 131071}

WrapSeq16s == {0, 1, 3, 32767, 32768, 32769, 65530, 65534, 65535}

WrapInputs ==
    {[last |-> l, raw |-> <<Block(q, CleanSample)>>,
      tr |-> Translation(0, 0, 1), err |-> 0] :
        l \in WrapLasts, q \in WrapSeq16s}

\* block order and payload length: empty, partial, full and ragged payloads
OrderPayloads == {Payload(0, 0), Payload(1, 3), Payload(2, 0),
                  Payload(MAX_BULK_MSG_SIZE \div BYTES_PER_SAMPLE,
                          MAX_BULK_MSG_SIZE % BYTES_PER_SAMPLE)}

OrderBlocks == {Block(q, d) : q \in {0, 1, 65535}, d \in OrderPayloads}

OrderBases ==
    {[last |-> 1, tr |-> Translation(0, 0, 400 * TicksPerMicro)],
     [last |-> 1, tr |-> Translation(5, 3, 1)],
     [last |-> 65535, tr |-> Translation(1000, 786400, 400 * TicksPerMicro)],
     [last |-> 65536, tr |-> Translation(-3, 786431, 3)]}

OrderInputs ==
    {[last |-> b.last, raw |-> raw, tr |-> b.tr, err |-> 0] :
        b \in OrderBases, raw \in SeqsOver(OrderBlocks, MaxBlocks)}

\* payload content: every choice of one sample, and pairs of them
ContentPayloads ==
    {<<>>} \cup SampleChoices
           \cup {a \o b : a \in {CleanSample, FlaggedSample},
                          b \in {FlaggedSample, MaxSample}}

ContentInputs ==
    {[last |-> 65535,
      raw |-> [j \in 1..Len(ds) |-> Block((65534 + j) % 65536, ds[j])],
      tr |-> Translation(0, 786420, 3), err |-> e] :
        ds \in SeqsOver(ContentPayloads, MaxBlocks), e \in {0, 2}}

DecodeInputs == WrapInputs \cup OrderInputs \cup ContentInputs

InitDecode ==
    \E inp \in DecodeInputs :
        /\ is_started = TRUE
        /\ raw_samples = inp.raw
        /\ last_sequence = inp.last
        /\ last_overflows = 0
        /\ clock_sync = inp.tr
        /\ last_error_count = inp.err
        /\ regs = ApplyWrites(ChipResetRegs, StartRegWrites, 1)
        /\ rest_ticks = StartRestTicks
        /\ mcu_sequence = 0
        /\ stopping = FALSE
        /\ client_cbs = {}
        /\ calibrate = NoCalibrate
        /\ ret = [op |-> "init", raised |-> "", info |-> <<>>, events |-> <<>>,
                  raw |-> <<>>, pre_err |-> inp.err, pre_seq |-> inp.last,
                  pre_lcc |-> 0, base |-> 0, tr |-> InitialClockSync,
                  acc |-> NoAcc, msg |-> NoMsg, first |-> FALSE, answers |-> {}]
        /\ ghost = NoGhost

\* lines 127-151 on the buffered blocks
ExtractCall ==
    /\ ret.op = "init"
    /\ \E acc \in {ExtractSamples(raw_samples, last_sequence, clock_sync,
                                  last_error_count)} :
         /\ last_error_count' = acc.err
         /\ clock_sync' = IF acc.raised = ""
                          THEN set_last_chip_clock(clock_sync, LastChipClockArg(acc))
                          ELSE clock_sync
         /\ ret' = [Ret("extract") EXCEPT !.raw = raw_samples, !.base = last_sequence,
                                          !.tr = clock_sync, !.acc = acc,
                                          !.raised = acc.raised]
    /\ raw_samples' = <<>>
    /\ UNCHANGED <<is_started, last_sequence, last_overflows, regs, rest_ticks,
                   mcu_sequence, stopping, client_cbs, calibrate, ghost>>

NextDecode == ExtractCall

SpecDecode == InitDecode /\ [][NextDecode]_vars

---------------------------------------------------------------------------
(* Properties *)

\* the handler that ran last decoded raw blocks
Decoded == ret.op \in {"extract", "batch"} /\ ret.raw # <<>>

\* the 4-byte samples of raw in arrival order: block b, position i, bytes v
RECURSIVE Flat(_, _)
Flat(raw, b) ==
    IF b > Len(raw) THEN <<>>
    ELSE [i \in 1..(Len(raw[b].data) \div 4) |->
             [b |-> b, i |-> i - 1, v |-> SubSeq(raw[b].data, 4 * i - 3, 4 * i)]]
         \o Flat(raw, b + 1)

\* the low 28 bits of a sample
Low28(v) == (v[1] % 16) * 16777216 + v[2] * 65536 + v[3] * 256 + v[4]

\* the signed 16-bit distance from last mod 65536 to seq16, in -32768..32767
SignedDistance(seq16, last) == ((seq16 - (last % 65536) + 32768) % 65536) - 32768

NonDecreasing(samples) ==
    \A j \in 1..(Len(samples) - 1) : samples[j].time <= samples[j + 1].time

\* C1: sequence reconciliation.  For every decoded block whose 16-bit
\* sequence number lies within -32767..+32767 (signed 16-bit distance) of
\* last_sequence mod 65536, the reconciled sequence is congruent to the
\* block's number modulo 65536, lies within 32767 of last_sequence, and is
\* the only integer with both properties (every integer congruent to seq16
\* is seq16 + 65536 k; the k whose value can fall in the window are listed).
C1_Reconcile ==
    Decoded =>
        \A b \in 1..Len(ret.acc.seqs) :
            LET seq16 == ret.raw[b].sequence
                last  == ret.base
                new   == ret.acc.seqs[b]
            IN  SignedDistance(seq16, last) \in -32767..32767 =>
                    /\ new % 65536 = seq16
                    /\ Abs(new - last) <= 32767
                    /\ \A k \in ((last - 32767) \div 65536)..((last + 32767) \div 65536) :
                           Abs(seq16 + 65536 * k - last) <= 32767
                               => seq16 + 65536 * k = new

\* C1 witness: a block reconciled backwards across the wrap (0 -> 65535)
C1_Witness ==
    /\ Decoded
    /\ ret.base = 65536
    /\ ret.raw[1].sequence = 65535
    /\ ret.acc.seqs[1] = 65535

\* C2 as stated: last_index 65530 and sequence number 3 reconcile to 65538
C2_Original ==
    (Decoded /\ ret.base = 65530 /\ ret.raw[1].sequence = 3)
        => ret.acc.seqs[1] = 65538

\* C2, amended: last_index 65530 and sequence number 3 reconcile to 65539,
\* the integer congruent to 3 modulo 65536 nearest to 65530, and not to 3
C2_WrapExample ==
    (Decoded /\ ret.base = 65530 /\ ret.raw[1].sequence = 3)
        => (ret.acc.seqs[1] = 65539 /\ ret.acc.seqs[1] # 3)

\* C2 witness: the example has been decoded
C2_Witness ==
    /\ Decoded
    /\ ret.base = 65530
    /\ ret.raw[1].sequence = 3
    /\ Len(ret.acc.samples) = 1

\* C3 as stated: whatever the sequence numbers of the blocks, the
\* timestamps of the emitted samples are non-decreasing in output order
C3_Original == Decoded => NonDecreasing(ret.acc.samples)

\* C3, amended: when the reconciled sequence numbers of the blocks of the
\* batch increase strictly in arrival order (and inv_freq is positive), the
\* timestamps of the emitted samples are non-decreasing in output order
C3_Monotonic ==
    (/\ Decoded
     /\ ret.tr.inv_freq > 0
     /\ \A b \in 1..(Len(ret.acc.seqs) - 1) : ret.acc.seqs[b] < ret.acc.seqs[b + 1])
        => NonDecreasing(ret.acc.samples)

\* C3 witness: two full blocks on either side of the wrap, decoded in order
C3_Witness ==
    /\ Decoded
    /\ Len(ret.raw) = 2
    /\ ret.raw[1].sequence = 65535
    /\ ret.raw[2].sequence = 0
    /\ ret.acc.seqs[1] < ret.acc.seqs[2]
    /\ Len(ret.acc.samples) = 2 * SAMPLES_PER_BLOCK
    /\ ret.acc.samples[1].time < ret.acc.samples[2 * SAMPLES_PER_BLOCK].time

\* C4: identity check.  A start whose manufacturer-id read differs from
\* 0x5449 or whose device-id read differs from 0x3055 ends with a command
\* error carrying both observed and both expected ids; that step performs
\* the two id reads and nothing else: no register is written, the buffered
\* samples are kept, no streaming command is sent, the clock updater is not
\* reset, the error counter is unchanged and the session is not streaming.
C4_IdCheck ==
    [][(/\ ret' # ret
        /\ ret'.op = "start"
        /\ (ret'.events[1].v # 21577 \/ ret'.events[2].v # 12373))
          => /\ ret'.raised = "command_error"
             /\ ret'.info = <<ret'.events[1].v, ret'.events[2].v, 21577, 12373>>
             /\ Len(ret'.events) = 2
             /\ \A k \in 1..2 : ret'.events[k].e = "read_reg"
             /\ ~is_started'
             /\ UNCHANGED <<regs, raw_samples, rest_ticks, last_sequence,
                            last_overflows, clock_sync, last_error_count>>]_vars

\* C4 witness: a start refused for the device id alone, after a session
\* that programmed the registers and counted errors
C4_Witness ==
    /\ ret.op = "start"
    /\ ret.raised = "command_error"
    /\ ret.info = <<21577, 12372, 21577, 12373>>
    /\ regs[REG_CONFIG] # 0
    /\ last_error_count > 0
    /\ ~is_started

\* C5: error accounting.  A decode raises the error counter by the number
\* of samples whose byte 0 has a non-zero top nibble, one each, and every
\* such sample is emitted at its position with the frequency of its low 28
\* bits, the frequency of the same sample with the top nibble cleared.
C5_ErrorAccounting ==
    Decoded =>
        LET flat == Flat(ret.raw, 1)
        IN  /\ last_error_count
                 = ret.pre_err + Cardinality({j \in 1..Len(flat) : flat[j].v[1] \div 16 # 0})
            /\ \A j \in 1..Len(flat) :
                   flat[j].v[1] \div 16 # 0 =>
                       /\ ret.raised = ""
                       /\ j <= Len(ret.acc.samples)
                       /\ ret.acc.samples[j].freq = FreqOf(Low28(flat[j].v))
                       /\ ret.acc.samples[j].freq
                            = FreqOf(SampleVal([flat[j].v EXCEPT ![1] = @ % 16]))

\* C5 witness: a batch with a flagged and an unflagged sample, decoded with
\* the counter already above zero
C5_Witness ==
    /\ Decoded
    /\ ret.pre_err = 2
    /\ last_error_count = 3
    /\ Len(ret.acc.samples) = 2
    /\ ret.raw[1].data = FlaggedSample \o MaxSample

\* C6 as stated: the decode of any pulled blocks returns one entry per
\* 4-byte sample of every block, in block order and then position order
C6_Claim ==
    Decoded =>
        LET flat == Flat(ret.raw, 1)
        IN  /\ ret.raised = ""
            /\ Len(ret.acc.samples) = Len(flat)
            /\ \A j \in 1..Len(flat) :
                   /\ ret.acc.samples[j].freq = FreqOf(Low28(flat[j].v))
                   /\ ret.acc.cidx[j]
                        = ret.acc.seqs[flat[j].b] * SAMPLES_PER_BLOCK + flat[j].i

\* C7: session reset.  A successful start leaves the error counter at 0 and
\* the clock updater and regression as note_start leaves them, whatever the
\* previous session left; the first batch tick of the session then finds the
\* counters of before the tick at zero and reconciles against the device's
\* 16-bit next_sequence alone.
C7_SessionReset ==
    /\ (ret.op = "start" /\ ret.raised = "") =>
           /\ is_started
           /\ last_error_count = 0
           /\ last_sequence = 0
           /\ last_overflows = 0
           /\ clock_sync = InitialClockSync
           /\ ~ghost.ticked
    /\ (ret.op = "batch" /\ ret.first) =>
           /\ ret.pre_err = 0
           /\ ret.pre_seq = 0
           /\ ret.pre_lcc = 0
           /\ ret.base = ret.info[1]

\* C7 witness: a successful start after a session that counted errors,
\* advanced its sequence past the wrap and recorded a chip clock
C7_Witness ==
    /\ ret.op = "start"
    /\ ret.raised = ""
    /\ ret.pre_err > 0
    /\ ret.pre_seq > 65535
    /\ ret.pre_lcc > 0

\* C8: a batch tick that pulls no raw block returns the empty result, raises
\* nothing, and leaves the error counter and the last chip clock as they were
C8_EmptyTick ==
    (ret.op = "batch" /\ ret.raw = <<>>) =>
        /\ ret.raised = ""
        /\ ~ret.msg.published
        /\ last_error_count = ret.pre_err
        /\ clock_sync.last_chip_clock = ret.pre_lcc

\* C8 witness: an empty tick in a session that has counted errors and
\* recorded a chip clock
C8_Witness ==
    /\ ret.op = "batch"
    /\ ret.raw = <<>>
    /\ last_error_count > 0
    /\ clock_sync.last_chip_clock > 0

\* C9 as stated: a batch tick whose pulled blocks all hold fewer than 4
\* bytes returns the empty result and raises nothing
C9_Claim ==
    (/\ ret.op = "batch"
     /\ ret.raw # <<>>
     /\ \A b \in 1..Len(ret.raw) : Len(ret.raw[b].data) < 4)
        => (ret.raised = "" /\ ~ret.msg.published)

\* C10 as stated: a published batch carries the number of error-flagged
\* samples decoded since the previous published batch
C10_Original ==
    (ret.op = "batch" /\ ret.msg.published) => ret.msg.errors = ghost.since_publish

\* C10, amended: a published batch carries the number of error-flagged
\* samples decoded since the most recent successful start
C10_ErrorsSinceStart ==
    (ret.op = "batch" /\ ret.msg.published) => ret.msg.errors = ghost.since_start

\* C10 witness: a published batch whose count includes errors of an earlier
\* published batch of the session
C10_Witness ==
    /\ ret.op = "batch"
    /\ ret.msg.published
    /\ ghost.since_publish < ghost.since_start
    /\ ret.pre_err > 0
    /\ ret.msg.errors > ret.pre_err

\* C11: session-scoped error counter.  In every state the error counter is
\* the number of error-flagged samples decoded since the most recent
\* successful start; only a successful start lowers it, and to 0; a stop, a
\* batch tick that pulls nothing and a failed start leave it as it was.
C11_SessionCounter ==
    /\ [](last_error_count = ghost.since_start)
    /\ [][ /\ (last_error_count' < last_error_count)
                => (ret'.op = "start" /\ ret'.raised = "" /\ last_error_count' = 0)
           /\ (\/ ret'.op = "finish"
               \/ (ret'.op = "batch" /\ ret'.raw = <<>>)
               \/ (ret'.op = "start" /\ ret'.raised # ""))
                => (last_error_count' = last_error_count) ]_vars

\* C11 witness: a session that counted errors in two decodes has stopped, and
\* the counter still holds them
C11_Witness ==
    /\ ret.op = "finish"
    /\ ~is_started
    /\ last_error_count = 2
    /\ ghost.since_start = 2
    /\ ghost.since_publish < 2

\* C12: start ordering.  Every successful _start_measurements performs, in
\* this order: the reads of the manufacturer id and of the device id; the
\* writes of resonant-count, offset, settle-count, clock-dividers,
\* error-config, mux-config, config and drive-current; the clearing of the
\* buffered samples; the start-streaming command with the rest interval of
\* half a sample period; note_start; the error counter set to 0.
C12_StartOrder ==
    (ret.op = "start" /\ ret.raised = "") =>
        LET ev == ret.events
        IN  /\ Len(ev) = 14
            /\ ev[1].e = "read_reg" /\ ev[1].a = 126
            /\ ev[2].e = "read_reg" /\ ev[2].a = 127
            /\ \A k \in 3..10 : ev[k].e = "set_reg"
            /\ [k \in 1..8 |-> ev[k + 2].a] = <<8, 12, 16, 20, 25, 27, 26, 30>>
            /\ \A k \in 3..10 : regs[ev[k].a] = ev[k].v
            /\ ev[11].e = "clear_samples"
            /\ raw_samples = <<>>
            /\ ev[12].e = "query"
            /\ ev[12].v = 16000000 \div (2 * 250)
            /\ rest_ticks = ev[12].v
            /\ ev[13].e = "note_start"
            /\ ev[14].e = "last_error_count" /\ ev[14].v = 0
            /\ last_error_count = 0

\* C12 witness: a successful start has run all fourteen steps on a chip
\* whose previous session had counted errors
C12_Witness ==
    /\ ret.op = "start"
    /\ ret.raised = ""
    /\ Len(ret.events) = 14
    /\ ret.events[12].v = 32000
    /\ ret.pre_err > 0
    /\ regs[REG_MUX_CONFIG] = 525
    /\ regs[REG_CONFIG] = 5633

\* C13: stop protocol.  _finish_measurements sends the streaming command
\* with rest interval 0 and waits; while it waits the session is not Idle
\* and the buffered blocks are kept; the step that takes the acknowledgment
\* clears the buffer and only then is the session Idle.  Whenever the
\* session is Idle no raw block is buffered and the mcu does not stream.
C13_StopProtocol ==
    /\ [](/\ stopping => is_started
          /\ ~is_started => (raw_samples = <<>> /\ rest_ticks = 0)
          /\ (ret.op = "finish" /\ stopping) =>
                 (/\ Len(ret.events) = 1
                  /\ ret.events[1] = [e |-> "query_wait_ack", a |-> 0, v |-> 0])
          /\ (ret.op = "finish" /\ ~stopping) =>
                 (/\ [k \in 1..3 |-> ret.events[k].e]
                        = <<"query_wait_ack", "ack", "clear_samples">>
                  /\ ret.events[1].v = 0
                  /\ ret.events[3].v = Len(ret.raw)
                  /\ ~is_started))
    /\ [][ /\ (stopping' /\ ~stopping) => (raw_samples' = raw_samples /\ is_started')
           /\ (is_started /\ ~is_started') => (stopping /\ raw_samples' = <<>>) ]_vars

\* C13 witness: a stop has completed whose acknowledgment arrived behind a
\* raw block the mcu sent while the command was waiting; the block is gone
C13_Witness ==
    /\ ret.op = "finish"
    /\ ~is_started
    /\ ghost.late > 0
    /\ Len(ret.raw) > 0
    /\ raw_samples = <<>>

\* C14: batch tick ordering.  Every _process_batch first performs one clock
\* update and then pulls the buffered blocks, also when the pull yields
\* nothing; the decoder then reconciles against the updated last sequence
\* and stamps with the updated translation; a published result carries the
\* decoded samples, the error count and the overflow count.
C14_TickOrder ==
    ret.op = "batch" =>
        LET ev == ret.events
        IN  /\ Len(ev) >= 2
            /\ ev[1].e = "update_clock"
            /\ ev[2].e = "pull_samples" /\ ev[2].v = Len(ret.raw)
            /\ Cardinality({k \in 1..Len(ev) : ev[k].e = "update_clock"}) = 1
            /\ last_sequence = ret.pre_seq + ((ret.info[1] - ret.pre_seq) % 65536)
            /\ ret.raw = <<>> => (Len(ev) = 2 /\ ~ret.msg.published)
            /\ ret.raw # <<>> =>
                   /\ Len(ev) = 4
                   /\ ev[3].e = "get_last_sequence"
                   /\ ev[4].e = "get_time_translation"
                   /\ \A b \in 1..Len(ret.acc.seqs) :
                          /\ ret.acc.seqs[b] % 65536 = ret.raw[b].sequence
                          /\ ret.acc.seqs[b] - last_sequence \in -32768..32767
                   /\ \A j \in 1..Len(ret.acc.samples) :
                          ret.acc.samples[j].time
                            = RoundHalfEven(clock_sync.time_base
                                  + (ret.acc.cidx[j] - clock_sync.chip_base)
                                      * clock_sync.inv_freq, TicksPerMicro)
            /\ ret.msg.published =>
                   /\ ret.msg.data = ret.acc.samples
                   /\ ret.msg.data # <<>>
                   /\ ret.msg.errors = last_error_count
                   /\ ret.msg.overflows = last_overflows

\* C14 witness: a tick whose clock update moved the last sequence, the
\* overflow count and the translation, and which then published
C14_Witness ==
    /\ ret.op = "batch"
    /\ ret.msg.published
    /\ ret.pre_seq # last_sequence
    /\ clock_sync.inv_freq = 2000
    /\ ret.msg.overflows = 1
    /\ ret.msg.errors > 0

\* C15 as stated: after a decode that emitted at least one sample, the value
\* recorded with set_last_chip_clock is the chip index of the last emitted
\* sample, whatever mix of full, partial and empty blocks the batch holds
C15_Claim ==
    (Decoded /\ ret.raised = "" /\ ret.acc.samples # <<>>) =>
        clock_sync.last_chip_clock = ret.acc.cidx[Len(ret.acc.cidx)]

\* C16: within one session the last chip clock never goes down: every
\* decode of a batch tick records a value at least the one recorded before
\* it (0 after the start), and no other step of the session lowers it.
C16_ChipClockMonotonic ==
    [][ (is_started /\ is_started' /\ ~(ret'.op = "start"))
          => clock_sync'.last_chip_clock >= clock_sync.last_chip_clock ]_vars

\* C16 witness: a decode that recorded a chip clock beyond the 16-bit wrap
\* of the block sequence, above the one recorded by the decode before it
C16_Witness ==
    /\ ret.op = "batch"
    /\ ret.raised = ""
    /\ Len(ret.raw) = 2
    /\ ret.raw[1].sequence = 65535
    /\ ret.raw[2].sequence = 0
    /\ ret.pre_lcc > 0
    /\ clock_sync.last_chip_clock > ret.pre_lcc
    /\ clock_sync.last_chip_clock >= 65536 * SAMPLES_PER_BLOCK

RECURSIVE DecimalValue(_)
\* the number a sequence of decimal digits denotes
DecimalValue(digits) ==
    IF digits = <<>> THEN 0
    ELSE 10 * DecimalValue(SubSeq(digits, 1, Len(digits) - 1)) + digits[Len(digits)]

\* C17: calibration restores the configuration.  A calibration run that
\* completes has read the config register, written the auto-calibration
\* value 0x201 to it, read the drive current register and written the config
\* register back, in this order; the value written back is the value read,
\* which is the value the register held before the run wrote to it, and the
\* register holds it when the run completes.  The drive current the run
\* reports and saves is bits 10..6 of the drive current register read, a
\* value in 0..31.
C17_CalibrationRestores ==
    (ret.op = "cal_restore" /\ calibrate.raised = "") =>
        LET ev == calibrate.events
        IN  /\ Len(ev) = 6
            /\ ev[1].e = "add_client"
            /\ ev[2].e = "read_reg" /\ ev[2].a = 26
            /\ ev[3].e = "set_reg" /\ ev[3].a = 26 /\ ev[3].v = 513
            /\ ev[4].e = "read_reg" /\ ev[4].a = 30
            /\ ev[5].e = "set_reg" /\ ev[5].a = 26 /\ ev[5].v = ev[2].v
            /\ ev[2].v = calibrate.pre_config
            /\ regs[26] = calibrate.pre_config
            /\ ev[6].e = "respond_info"
            /\ ev[6].v = (ev[4].v \div 64) % 32
            /\ calibrate.drive_cur = ev[6].v
            /\ calibrate.drive_cur \in 0..31
            /\ DecimalValue(calibrate.saved) = ev[6].v

\* C17 witness: a run has completed on a streaming chip; it read 0x7c40
\* from the drive current register and reported 17, and the config
\* register holds the streaming configuration again
C17_Witness ==
    /\ ret.op = "cal_restore"
    /\ calibrate.raised = ""
    /\ calibrate.events[4].v = 31808
    /\ calibrate.drive_cur = 17
    /\ calibrate.saved = <<1, 7>>
    /\ calibrate.pre_config = 5633
    /\ regs[REG_CONFIG] = 5633

\* C18 as stated: the observer of a calibration run answers 'continue' to
\* every batch published while the run is between its subscription and its
\* config restore, and once the run has ended, by the restore or by a failing
\* register read, it answers 'stop' to the batch published next
C18_Claim ==
    (ret.op = "batch" /\ ret.msg.published) =>
        \A a \in ret.answers :
            /\ ~a.client.ended => a.res
            /\ a.client.ended => ~a.res

\* C19 as stated: never are two calibration runs in progress at once; no
\* successful session start programs the registers between a run's
\* auto-calibration write and its config restore; and whenever no run is in
\* progress the config register does not hold the auto-calibration value
C19_Claim ==
    /\ Cardinality({c \in client_cbs : ~c.ended}) <= 1
    /\ (ret.op = "start" /\ ret.raised = "") => ~calibrate.window
    /\ calibrate.pc = "idle" => regs[REG_CONFIG] # 513

\* C20: chip-index continuity.  Within a block the chip indices of the
\* emitted samples go up by one; and when two blocks decoded one after the
\* other carry the sequence numbers n and (n + 1) mod 65536, both within
\* 32767 of the reconcile base, and the first holds 51 \div 4 = 12 samples,
\* the first sample of the second has the chip index of the last sample of
\* the first plus 1.
C20_ChipIndexContinuity ==
    Decoded =>
        LET flat == Flat(ret.raw, 1)
        IN  \A j \in 2..Len(flat) :
                LET p == flat[j - 1]
                    q == flat[j]
                IN  /\ q.b = p.b =>
                       (/\ j <= Len(ret.acc.cidx)
                        /\ ret.acc.cidx[j] = ret.acc.cidx[j - 1] + 1)
                    /\ (/\ q.b = p.b + 1
                        /\ ret.raw[q.b].sequence = (ret.raw[p.b].sequence + 1) % 65536
                        /\ SignedDistance(ret.raw[p.b].sequence, ret.base) \in -32767..32767
                        /\ SignedDistance(ret.raw[q.b].sequence, ret.base) \in -32767..32767
                        /\ Len(ret.raw[p.b].data) \div 4 = 51 \div 4)
                         => (/\ ret.raised = ""
                             /\ j <= Len(ret.acc.cidx)
                             /\ ret.acc.cidx[j] = ret.acc.cidx[j - 1] + 1)

\* C20 witness: a full block numbered 65535 and a full block numbered 0,
\* decoded against the base 65536: twenty-four consecutive chip indices
C20_Witness ==
    /\ Decoded
    /\ ret.base = 65536
    /\ Len(ret.raw) = 2
    /\ ret.raw[1].sequence = 65535
    /\ ret.raw[2].sequence = 0
    /\ Len(ret.acc.cidx) = 24
    /\ ret.acc.cidx[12] = 786431
    /\ ret.acc.cidx[13] = 786432

====
